---------------------------- MODULE Spec2Model ----------------------------
(***************************************************************************)
(* Food-truck search service (src/main.go).                                *)
(*                                                                         *)
(*   main               loads the permit file once into the process-wide   *)
(*                      slice foodTrucks (readFoodTruckData)               *)
(*   getFoodTrucks      GET /foodtrucks: reads the query parameters and    *)
(*                      calls searchFoodTrucks on foodTrucks               *)
(*   searchFoodTrucks   keyword filter, proximity filter, recency sort     *)
(*   getWalkableTrucks  the proximity filter: one DistanceMatrix call per   *)
(*                      batch of at most 25 candidates                     *)
(*                                                                         *)
(* Texts that the code inspects character by character (the offerings, the *)
(* search term, the numeric column 20) are sequences of one-character      *)
(* strings.  A Go slice is a sequence; a slice that shares its backing     *)
(* array with foodTrucks is marked by the flag resultsShared, and a write  *)
(* through it is a write to foodTrucks.                                    *)
(*                                                                         *)
(* Three specifications share the actions:                                 *)
(*   SpecLoad  main's load of a permit file                                *)
(*   Spec      the server after a successful load, one request at a time   *)
(*   SpecWalk  getWalkableTrucks called on a candidate list of its own     *)
(*                                                                         *)
(* A handler runs from its request to its response before the next one     *)
(* starts; the only steps inside a handler are the DistanceMatrix calls,   *)
(* whose replies are inputs.  sort.Slice is the Go library's: it is        *)
(* modelled by its documented contract, not by one version's algorithm.    *)
(* Column 20 is drawn from unsigned texts, on which uint(recv) is recv.    *)
(***************************************************************************)
EXTENDS Integers, Sequences, FiniteSets, TLC

VARIABLES
    source,          \* the permit file main opens
    mainPc,          \* main: "start", "serving", "panicked"
    loadErr,         \* the error readFoodTruckData returned
    loaded,          \* history: the slice readFoodTruckData returned
    foodTrucks,      \* the process-wide master list (main.go:41)
    pc,              \* the request: "idle", "walk", "returned", "panicked"
    req,             \* searchFoodTrucks' arguments searchTerm, lat, lon, newestFirst
    searchList,      \* history: searchFoodTrucks' argument searchList, as passed
    results,         \* searchFoodTrucks' local results / its return value
    resultsShared,   \* results shares foodTrucks' backing array
    preSort,         \* history: results as it entered the sort step
    caller,          \* who called getWalkableTrucks: "search", "direct", "none"
    allTrucks,       \* getWalkableTrucks' argument
    i,               \* getWalkableTrucks' loop counter
    walkableTrucks,  \* getWalkableTrucks' accumulator
    walkRet,         \* getWalkableTrucks' return pair, once it returned
    calls,           \* history: the Destinations of every DistanceMatrix call
    resps,           \* history: the reply to every DistanceMatrix call
    panicVal         \* the value the request panicked with

vars == <<source, mainPc, loadErr, loaded, foodTrucks, pc, req, searchList,
          results, resultsShared, preSort, caller, allTrucks, i,
          walkableTrucks, walkRet, calls, resps, panicVal>>

loadVars == <<source, mainPc, loadErr, loaded, foodTrucks>>
walkVars == <<caller, allTrucks, i, walkableTrucks, walkRet, calls, resps>>

---------------------------------------------------------------------------
(* Bounds of the model. *)

MaxRows == 3          \* data rows in a permit file (SpecLoad)
MaxTrucks == 3        \* records in the loaded master list (Spec)
MaxCandidates == 30   \* candidates handed to getWalkableTrucks (SpecWalk)
PatLen == 2           \* period of the element pattern of a lookup reply

(* Program constants. *)

maxDestinationsPerRequest == 25
WalkingDistance == 1000

Min(a, b) == IF a < b THEN a ELSE b

---------------------------------------------------------------------------
(* Texts. *)

\* strings.ToLower on one character of the model's alphabet
LowerChar(c) ==
    CASE c = "A" -> "a"
      [] c = "B" -> "b"
      [] c = "C" -> "c"
      [] OTHER -> c

\* strings.ToLower
ToLower(s) == [k \in 1..Len(s) |-> LowerChar(s[k])]

\* strings.Contains(s, substr)
Contains(s, substr) ==
    \E k \in 0..(Len(s) - Len(substr)) :
        SubSeq(s, k + 1, k + Len(substr)) = substr

IsDigit(c) == c \in {"0", "1", "2", "3", "4", "5", "6", "7", "8", "9"}

DigitVal(c) ==
    CASE c = "0" -> 0 [] c = "1" -> 1 [] c = "2" -> 2 [] c = "3" -> 3
      [] c = "4" -> 4 [] c = "5" -> 5 [] c = "6" -> 6 [] c = "7" -> 7
      [] c = "8" -> 8 [] c = "9" -> 9

RECURSIVE DigitsVal(_, _)
DigitsVal(s, acc) ==
    IF s = <<>> THEN acc
    ELSE DigitsVal(Tail(s), 10 * acc + DigitVal(Head(s)))

\* strconv.Atoi: an optional sign, then one or more decimal digits
Atoi(s) ==
    LET signed == s # <<>> /\ Head(s) \in {"+", "-"}
        digits == IF signed THEN Tail(s) ELSE s
    IN  IF digits = <<>> \/ \E k \in 1..Len(digits) : ~IsDigit(digits[k])
        THEN [err |-> "ParseError", val |-> 0]
        ELSE [err |-> "nil",
              val |-> IF signed /\ Head(s) = "-"
                      THEN 0 - DigitsVal(digits, 0)
                      ELSE DigitsVal(digits, 0)]

---------------------------------------------------------------------------
(* The permit file and readFoodTruckData. *)

\* column 10 of a data row
Statuses == {"APPROVED", "EXPIRED", "approved"}

\* column 20 of a data row
ReceivedTexts == {<<"7">>, <<"1", "2">>, <<"x">>, <<>>}

Header == [c1 |-> "Applicant", c10 |-> "Status", c11 |-> <<>>,
           c14 |-> "Latitude", c15 |-> "Longitude", c20 |-> <<"R">>]

\* data row number n of a file: the columns readFoodTruckData reads
DataRow(n, status, recv) ==
    [c1 |-> n, c10 |-> status, c11 |-> <<"a">>,
     c14 |-> "37", c15 |-> "-122", c20 |-> recv]

DataRows ==
    UNION {
        {[n \in 1..k |-> DataRow(n, st[n], rc[n])] :
            st \in [1..k -> Statuses], rc \in [1..k -> ReceivedTexts]}
        : k \in 0..MaxRows}

\* what os.Open and csv.ReadAll give: an error, or the file's lines
Sources ==
    {[ioErr |-> TRUE, lines |-> <<>>], [ioErr |-> FALSE, lines |-> <<>>]}
    \cup {[ioErr |-> FALSE, lines |-> <<Header>> \o rows] : rows \in DataRows}

NoSource == [ioErr |-> FALSE, lines |-> <<Header>>]

\* the foodTruckInfo of one line (main.go:182-191)
InfoOf(line) ==
    [Name |-> line.c1,
     Status |-> line.c10,
     FoodItems |-> line.c11,
     LatLon |-> line.c14 \o "," \o line.c15,
     Received |-> Atoi(line.c20).val]

\* ReadLines with the status test left out: every row is kept
RECURSIVE ReadLinesKeepAll(_, _, _)
ReadLinesKeepAll(lines, k, trucksInFile) ==
    IF k > Len(lines) THEN [trucks |-> trucksInFile, err |-> "nil"]
    ELSE IF Atoi(lines[k].c20).err # "nil"
         THEN [trucks |-> <<>>, err |-> Atoi(lines[k].c20).err]
         ELSE ReadLinesKeepAll(lines, k + 1,
                               Append(trucksInFile, InfoOf(lines[k])))

\* the loop of readFoodTruckData over lines[1:], from line k on, with the
\* records kept so far
RECURSIVE ReadLines(_, _, _)
ReadLines(lines, k, trucksInFile) ==
    IF k > Len(lines) THEN [trucks |-> trucksInFile, err |-> "nil"]
    ELSE IF Atoi(lines[k].c20).err # "nil"
         THEN [trucks |-> <<>>, err |-> Atoi(lines[k].c20).err]
         ELSE ReadLines(lines, k + 1,
                        IF InfoOf(lines[k]).Status = "APPROVED"
                        THEN Append(trucksInFile, InfoOf(lines[k]))
                        ELSE trucksInFile)

\* readFoodTruckData: "panic" when lines[1:] is out of range (no header line)
readFoodTruckData(src) ==
    IF src.ioErr THEN [trucks |-> <<>>, err |-> "IOError", panic |-> FALSE]
    ELSE IF Len(src.lines) < 1
         THEN [trucks |-> <<>>, err |-> "nil", panic |-> TRUE]
         ELSE [trucks |-> ReadLines(src.lines, 2, <<>>).trucks,
               err |-> ReadLines(src.lines, 2, <<>>).err,
               panic |-> FALSE]

---------------------------------------------------------------------------
(* The request's variables when no request is in progress. *)

NoReq == [searchTerm |-> <<>>, lat |-> 0, lon |-> 0, newestFirst |-> FALSE]
NoRet == [trucks |-> <<>>, err |-> "none"]

IdleRequest ==
    /\ pc = "idle"
    /\ req = NoReq
    /\ searchList = <<>>
    /\ results = <<>>
    /\ resultsShared = FALSE
    /\ preSort = <<>>
    /\ caller = "none"
    /\ allTrucks = <<>>
    /\ i = 0
    /\ walkableTrucks = <<>>
    /\ walkRet = NoRet
    /\ calls = <<>>
    /\ resps = <<>>
    /\ panicVal = "none"

reqVars == <<pc, req, searchList, results, resultsShared, preSort, panicVal>>

---------------------------------------------------------------------------
(* main (main.go:48-62): load the file, panic on an error. *)

Main ==
    /\ mainPc = "start"
    /\ LET r == readFoodTruckData(source)
       IN  /\ loadErr' = (IF r.panic THEN "panic" ELSE r.err)
           /\ IF r.panic \/ r.err # "nil"
              THEN /\ mainPc' = "panicked"
                   /\ UNCHANGED <<foodTrucks, loaded>>
              ELSE /\ mainPc' = "serving"
                   /\ foodTrucks' = r.trucks
                   /\ loaded' = r.trucks
    /\ UNCHANGED <<source, reqVars, walkVars>>

---------------------------------------------------------------------------
(* searchFoodTrucks' steps. *)

\* the offerings (column 11) of the records of the master list
Offerings == {<<"A", "b">>, <<"b", "a", "C">>}

\* the search terms of the requests
Keywords == {<<>>, <<"B", "A">>, <<"c">>, <<"x">>}

\* the freshness markers (column 20) of the records of the master list
ReceivedValues == {1, 2}

\* record number k of a master list, as readFoodTruckData builds it
Truck(k, items, recv) ==
    [Name |-> k, Status |-> "APPROVED", FoodItems |-> items,
     LatLon |-> ToString(k) \o ",-122", Received |-> recv]

\* KeywordFilter without ToLower on the search term
KeywordFilterCaseSensitive(list, searchTerm) ==
    SelectSeq(list, LAMBDA truck :
        Contains(ToLower(truck.FoodItems), searchTerm))

\* the keyword step (main.go:122-133) for a non-empty search term
KeywordFilter(list, searchTerm) ==
    SelectSeq(list, LAMBDA truck :
        Contains(ToLower(truck.FoodItems), ToLower(searchTerm)))

\* ProximityRequested with "or" for "and"
ProximityRequestedEither(lat, lon) == lat # 0 \/ lon # 0

\* the guard of the proximity step (main.go:140)
ProximityRequested(lat, lon) == lat # 0 /\ lon # 0

\* Less with the comparison turned around: oldest first
LessAscending(a, b) == a.Received < b.Received

\* the less function handed to sort.Slice (main.go:151-153)
Less(a, b) == a.Received > b.Received

RemoveAt(s, k) == SubSeq(s, 1, k - 1) \o SubSeq(s, k + 1, Len(s))

\* sort.Slice(s, Less): every ordering of s in which no element is Less than
\* one before it.  sort.Slice is not a stable sort: which of these orderings
\* it produces for elements neither of which is Less than the other depends
\* on the library's algorithm.
RECURSIVE SortSlice(_)
SortSlice(s) ==
    IF s = <<>> THEN {<<>>}
    ELSE UNION {
        {<<s[k]>> \o t : t \in SortSlice(RemoveAt(s, k))}
        : k \in {k \in 1..Len(s) : \A j \in 1..Len(s) : ~Less(s[j], s[k])}}

---------------------------------------------------------------------------
(* getWalkableTrucks' steps. *)

\* NumRequests rounding down
NumRequestsFloor(list) == Len(list) \div maxDestinationsPerRequest

\* numRequests (main.go:209): ceil(len / 25)
NumRequests(list) ==
    IF Len(list) % maxDestinationsPerRequest = 0
    THEN Len(list) \div maxDestinationsPerRequest
    ELSE Len(list) \div maxDestinationsPerRequest + 1

\* startIdx and endIdx of iteration n (main.go:224-225), 0-based, end exclusive
StartIdx(n) == n * maxDestinationsPerRequest
EndIdx(list, n) == Min(Len(list), StartIdx(n) + maxDestinationsPerRequest)

\* the Destinations of iteration n's request (main.go:227-229)
Destinations(list, n) ==
    [k \in 1..(EndIdx(list, n) - StartIdx(n)) |-> list[StartIdx(n) + k].LatLon]

\* the elements a reply may carry
Elements ==
    {[Status |-> "OK", Meters |-> 712],
     [Status |-> "OK", Meters |-> 1000],
     [Status |-> "NOT_FOUND", Meters |-> 0]}

\* the numbers of elements of a reply to a request with n destinations:
\* one per destination, one fewer, one more, or always two (the test's mock)
ReplyLens(n) == {k \in {n - 1, n, n + 1, 2} : k >= 0}

\* the replies of DistanceMatrix to a request with n destinations: an error,
\* a response without rows, or a response whose one row has the elements of
\* a periodic pattern
Replies(n) ==
    {[err |-> TRUE, rows |-> <<>>], [err |-> FALSE, rows |-> <<>>]}
    \cup {[err |-> FALSE,
           rows |-> <<[k \in 1..len |-> pat[((k - 1) % PatLen) + 1]]>>]
          : len \in ReplyLens(n), pat \in [1..PatLen -> Elements]}

\* Walkable with "<=" for "<"
WalkableInclusive(elem) == elem.Status = "OK" /\ elem.Meters <= WalkingDistance

\* the filter of main.go:258
Walkable(elem) == elem.Status = "OK" /\ elem.Meters < WalkingDistance

\* the loop over resp.Rows[0].Elements (main.go:257-261) from element v
\* (0-based) on: the accumulator, and whether allTrucks[startIdx+v] was out
\* of range
RECURSIVE Collect(_, _, _, _, _)
Collect(list, start, elems, v, acc) ==
    IF v >= Len(elems) THEN [trucks |-> acc, panic |-> FALSE]
    ELSE IF ~Walkable(elems[v + 1])
         THEN Collect(list, start, elems, v + 1, acc)
         ELSE IF start + v >= Len(list)
              THEN [trucks |-> acc, panic |-> TRUE]
              ELSE Collect(list, start, elems, v + 1,
                           Append(acc, list[start + v + 1]))

---------------------------------------------------------------------------
(* The requests. *)

\* the end of searchFoodTrucks (main.go:147-155) on the result set res:
\* the sort, in place, and the return
Finish(res, shared, newestFirst) ==
    /\ preSort' = res
    /\ resultsShared' = shared
    /\ pc' = "returned"
    /\ panicVal' = "none"
    /\ IF newestFirst
       THEN \E sorted \in SortSlice(res) :
                /\ results' = sorted
                /\ foodTrucks' = (IF shared THEN sorted ELSE foodTrucks)
       ELSE /\ results' = res
            /\ UNCHANGED foodTrucks

Panic(val) ==
    /\ pc' = "panicked"
    /\ panicVal' = val

\* a query parameter: absent, or present with a text that ParseFloat
\* rejects or reads as the number val
Absent == [present |-> FALSE, numeric |-> FALSE, val |-> 0]
Malformed == [present |-> TRUE, numeric |-> FALSE, val |-> 0]
Number(v) == [present |-> TRUE, numeric |-> TRUE, val |-> v]

LatParams == {Absent, Malformed, Number(0), Number(37)}
LonParams == {Absent, Malformed, Number(0), Number(-122)}

\* params.Has
Has(param) == param.present

\* strconv.ParseFloat on a present parameter
ParseFloat(param) ==
    IF param.numeric THEN [err |-> "nil", val |-> param.val]
    ELSE [err |-> "ParseError", val |-> 0]

\* searchFoodTrucks (main.go:116-156) up to its first DistanceMatrix call,
\* or to its return when it makes none
SearchFoodTrucks(list, searchTerm, lat, lon, newestFirst) ==
    /\ req' = [searchTerm |-> searchTerm, lat |-> lat, lon |-> lon,
               newestFirst |-> newestFirst]
    /\ searchList' = list
    /\ LET kw == IF Len(searchTerm) > 0
                 THEN KeywordFilter(list, searchTerm)
                 ELSE list
           shared == Len(searchTerm) = 0
       IN  IF ProximityRequested(lat, lon)
           THEN IF NumRequests(kw) = 0
                THEN /\ caller' = "search"
                     /\ allTrucks' = kw
                     /\ walkRet' = [trucks |-> <<>>, err |-> "nil"]
                     /\ UNCHANGED <<i, walkableTrucks, calls, resps>>
                     /\ Finish(<<>>, FALSE, newestFirst)
                     /\ UNCHANGED <<source, mainPc, loadErr, loaded>>
                ELSE /\ caller' = "search"
                     /\ allTrucks' = kw
                     /\ i' = 0
                     /\ walkableTrucks' = <<>>
                     /\ calls' = <<Destinations(kw, 0)>>
                     /\ pc' = "walk"
                     /\ results' = kw
                     /\ resultsShared' = shared
                     /\ UNCHANGED <<walkRet, resps, preSort, panicVal, loadVars>>
           ELSE /\ Finish(kw, shared, newestFirst)
                /\ UNCHANGED <<walkVars, source, mainPc, loadErr, loaded>>

\* GET /foodtrucks (main.go:74-110), with GOOGLE_MAPS_API_KEY set
GetFoodTrucks(search, latParam, lonParam, newest) ==
    /\ mainPc = "serving"
    /\ pc = "idle"
    /\ IF Has(latParam) /\ Has(lonParam)
       THEN IF ParseFloat(latParam).err # "nil"
               \/ ParseFloat(lonParam).err # "nil"
            THEN /\ Panic("ParseError")
                 /\ UNCHANGED <<req, searchList, results, resultsShared,
                                preSort, walkVars, loadVars>>
            ELSE SearchFoodTrucks(foodTrucks, search, ParseFloat(latParam).val,
                                  ParseFloat(lonParam).val, newest)
       ELSE SearchFoodTrucks(foodTrucks, search, 0, 0, newest)

\* DistanceMatrix answers the call of iteration i (main.go:247-263); the
\* last iteration is followed by getWalkableTrucks' return and, under
\* searchFoodTrucks, by the rest of searchFoodTrucks
DistanceMatrixReply(resp) ==
    /\ pc = "walk"
    /\ resps' = Append(resps, resp)
    /\ IF resp.err
       THEN /\ Panic("ExternalLookupError")
            /\ UNCHANGED <<i, walkableTrucks, walkRet, calls, req, searchList,
                           results, resultsShared, preSort, loadVars,
                           caller, allTrucks>>
       ELSE IF resp.rows = <<>>
               \/ Collect(allTrucks, StartIdx(i), resp.rows[1], 0,
                          walkableTrucks).panic
            THEN /\ Panic("index out of range")
                 /\ UNCHANGED <<i, walkableTrucks, walkRet, calls, req,
                                searchList, results, resultsShared, preSort,
                                loadVars, caller, allTrucks>>
            ELSE LET got == Collect(allTrucks, StartIdx(i), resp.rows[1], 0,
                                    walkableTrucks).trucks
                 IN  /\ walkableTrucks' = got
                     /\ i' = i + 1
                     /\ UNCHANGED <<req, searchList, caller, allTrucks>>
                     /\ IF i + 1 < NumRequests(allTrucks)
                        THEN /\ calls' = Append(calls,
                                                Destinations(allTrucks, i + 1))
                             /\ UNCHANGED <<pc, panicVal, walkRet, results,
                                            resultsShared, preSort, loadVars>>
                        ELSE /\ walkRet' = [trucks |-> got, err |-> "nil"]
                             /\ UNCHANGED calls
                             /\ IF caller = "search"
                                THEN /\ Finish(got, FALSE, req.newestFirst)
                                     /\ UNCHANGED <<source, mainPc, loadErr,
                                                    loaded>>
                                ELSE /\ pc' = "returned"
                                     /\ UNCHANGED <<panicVal, results,
                                                    resultsShared, preSort,
                                                    loadVars>>

\* the handler ends: the response is written (main.go:109), or gin's
\* recovery answers for a panic; the request's variables are dropped
Respond ==
    /\ caller # "direct"
    /\ pc \in {"returned", "panicked"}
    /\ pc' = "idle"
    /\ req' = NoReq
    /\ searchList' = <<>>
    /\ results' = <<>>
    /\ resultsShared' = FALSE
    /\ preSort' = <<>>
    /\ caller' = "none"
    /\ allTrucks' = <<>>
    /\ i' = 0
    /\ walkableTrucks' = <<>>
    /\ walkRet' = NoRet
    /\ calls' = <<>>
    /\ resps' = <<>>
    /\ panicVal' = "none"
    /\ UNCHANGED loadVars

\* the reply to the call in flight, which has Len(calls[i+1]) destinations
Reply ==
    /\ pc = "walk"
    /\ \E resp \in Replies(Len(calls[i + 1])) : DistanceMatrixReply(resp)

Request ==
    \E search \in Keywords, latParam \in LatParams, lonParam \in LonParams,
       newest \in BOOLEAN :
        GetFoodTrucks(search, latParam, lonParam, newest)

---------------------------------------------------------------------------
(* The server after a successful load. *)

Bases ==
    UNION {
        {[k \in 1..n |-> Truck(k, items[k], recv[k])] :
            items \in [1..n -> Offerings], recv \in [1..n -> ReceivedValues]}
        : n \in 0..MaxTrucks}

Init ==
    /\ source = NoSource
    /\ mainPc = "serving"
    /\ loadErr = "nil"
    /\ foodTrucks \in Bases
    /\ loaded = foodTrucks
    /\ IdleRequest

Next == Request \/ Reply \/ Respond

Spec == Init /\ [][Next]_vars

---------------------------------------------------------------------------
(* getWalkableTrucks on a candidate list of its own. *)

Candidates(n) == [k \in 1..n |-> Truck(k, <<"a">>, 1)]

InitWalk ==
    /\ source = NoSource
    /\ mainPc = "serving"
    /\ loadErr = "nil"
    /\ foodTrucks = <<>>
    /\ loaded = <<>>
    /\ req = NoReq
    /\ searchList = <<>>
    /\ results = <<>>
    /\ resultsShared = FALSE
    /\ preSort = <<>>
    /\ panicVal = "none"
    /\ caller = "direct"
    /\ \E n \in 0..MaxCandidates :
        /\ allTrucks = Candidates(n)
        /\ i = 0
        /\ walkableTrucks = <<>>
        /\ resps = <<>>
        /\ IF NumRequests(allTrucks) = 0
           THEN /\ pc = "returned"
                /\ walkRet = [trucks |-> <<>>, err |-> "nil"]
                /\ calls = <<>>
           ELSE /\ pc = "walk"
                /\ walkRet = NoRet
                /\ calls = <<Destinations(allTrucks, 0)>>

NextWalk == Reply

SpecWalk == InitWalk /\ [][NextWalk]_vars

---------------------------------------------------------------------------
(* main's load of a permit file. *)

InitLoad ==
    /\ source \in Sources
    /\ mainPc = "start"
    /\ loadErr = "none"
    /\ loaded = <<>>
    /\ foodTrucks = <<>>
    /\ IdleRequest

NextLoad == Main

SpecLoad == InitLoad /\ [][NextLoad]_vars

---------------------------------------------------------------------------
(* Operators the properties are stated with. *)

\* the concatenation of a sequence of sequences
RECURSIVE Flatten(_)
Flatten(ss) == IF ss = <<>> THEN <<>> ELSE Head(ss) \o Flatten(Tail(ss))

\* the elements of s at the indexes in idxs, in index order
Pick(s, idxs) ==
    [p \in 1..Cardinality(idxs) |->
        s[CHOOSE k \in idxs : Cardinality({j \in idxs : j <= k}) = p]]

\* how often x occurs in s
Count(s, x) == Cardinality({k \in 1..Len(s) : s[k] = x})

IsPermutation(s, t) ==
    /\ Len(s) = Len(t)
    /\ \A k \in 1..Len(s) : Count(s, s[k]) = Count(t, s[k])

\* the same letter, whatever the case
SameLetter(a, b) ==
    \/ a = b
    \/ {a, b} \in {{"a", "A"}, {"b", "B"}, {"c", "C"}}

\* kw occurs in items, letter case ignored
OccursIn(kw, items) ==
    \E off \in 0..(Len(items) - Len(kw)) :
        \A j \in 1..Len(kw) : SameLetter(items[off + j], kw[j])

\* the indexes of the records of list that a keyword search for kw must find
Matching(list, kw) == {k \in 1..Len(list) : OccursIn(kw, list[k].FoodItems)}

\* every reply so far is a success carrying one row
Successful == \A c \in 1..Len(resps) : ~resps[c].err /\ Len(resps[c].rows) = 1

\* every reply so far is a success with one element per destination
OnePerDestination ==
    /\ Successful
    /\ \A c \in 1..Len(resps) : Len(resps[c].rows[1]) = Len(calls[c])

\* the element of the replies that answers for candidate k (1-based)
ElementFor(k) == resps[((k - 1) \div 25) + 1].rows[1][((k - 1) % 25) + 1]

\* the candidates to retain, given one element per destination
WithinReach ==
    {k \in 1..Len(allTrucks) :
        ElementFor(k).Status = "OK" /\ ElementFor(k).Meters < 1000}

\* the position of the record named name in list
PositionOf(list, name) == CHOOSE k \in 1..Len(list) : list[k].Name = name

---------------------------------------------------------------------------
(* C1 as stated: every request leaves the master list as the loader        *)
(* returned it, same records in the same order.                            *)
C1_BaseUnchanged == foodTrucks = loaded

(* C2: getWalkableTrucks issues its lookup calls one after the other; call *)
(* c carries between 1 and 25 destinations, those of the candidates that   *)
(* follow the ones of the calls before it, in candidate order; every call  *)
(* but the last carries 25; and when it has returned, the calls carried    *)
(* every candidate, in ceil(n/25) calls.                                   *)
C2_Batching ==
    LET n == Len(allTrucks)
    IN  /\ Len(calls) <= Len(resps) + 1
        /\ \A c \in 1..Len(calls) :
            /\ Len(calls[c]) \in 1..25
            /\ c < Len(calls) => Len(calls[c]) = 25
            /\ 25 * (c - 1) + Len(calls[c]) <= n
            /\ \A k \in 1..Len(calls[c]) :
                 calls[c][k] = allTrucks[25 * (c - 1) + k].LatLon
        /\ (caller = "direct" /\ pc = "returned") =>
            /\ Len(Flatten(calls)) = n
            /\ 25 * Len(calls) >= n
            /\ 25 * Len(calls) < n + 25

C2_Witness ==
    /\ caller = "direct"
    /\ pc = "returned"
    /\ Len(allTrucks) = 30
    /\ Len(calls) = 2
    /\ Len(calls[1]) = 25
    /\ Len(calls[2]) = 5

(* C3: when every lookup call succeeds with one element per destination,   *)
(* getWalkableTrucks does not fail and returns, with a nil error, exactly  *)
(* the candidates whose element has status "OK" and a distance below 1000, *)
(* in candidate order.                                                     *)
C3_PositionalFilter ==
    (caller = "direct" /\ OnePerDestination) =>
        /\ pc # "panicked"
        /\ pc = "returned" =>
            /\ walkRet.err = "nil"
            /\ walkRet.trucks = Pick(allTrucks, WithinReach)

C3_Witness ==
    /\ caller = "direct"
    /\ pc = "returned"
    /\ OnePerDestination
    /\ Len(resps) = 2
    /\ \E k \in 1..Len(allTrucks) : ElementFor(k).Meters = 1000
    /\ \E k \in 1..Len(allTrucks) : ElementFor(k).Status # "OK"
    /\ Len(walkRet.trucks) > 13

(* C4 as stated: once a lookup call has returned an error,                 *)
(* getWalkableTrucks issues no further call and has returned that error    *)
(* as its error result, with no records.                                   *)
C4_ErrorReturned ==
    (caller = "direct" /\ \E c \in 1..Len(resps) : resps[c].err) =>
        /\ Len(calls) = Len(resps)
        /\ pc = "returned"
        /\ walkRet.err = "ExternalLookupError"
        /\ walkRet.trucks = <<>>

(* C5: when searchFoodTrucks returns from a call with newestFirst set, its *)
(* result is a permutation of the result set that entered the sort step    *)
(* and is non-increasing in Received.                                      *)
C5_NewestFirst ==
    (pc = "returned" /\ req.newestFirst) =>
        /\ IsPermutation(preSort, results)
        /\ \A k \in 1..(Len(results) - 1) :
             results[k].Received >= results[k + 1].Received

C5_Witness ==
    /\ pc = "returned"
    /\ req.newestFirst
    /\ Len(results) = 3
    /\ results # preSort
    /\ results[1].Received > results[3].Received

(* C6 as stated: the recency sort is stable, two records with the same     *)
(* Received keep in the result the relative order they had before the      *)
(* sort step.                                                              *)
C6_Stable ==
    (pc = "returned" /\ req.newestFirst) =>
        \A p, q \in 1..Len(preSort) :
            (p < q /\ preSort[p].Received = preSort[q].Received) =>
                PositionOf(results, preSort[p].Name)
                    < PositionOf(results, preSort[q].Name)

(* C7: without proximity filter and sort, searchFoodTrucks returns, for a  *)
(* non-empty keyword, exactly the records of its list whose offerings      *)
(* contain the keyword with letter case ignored, in list order (none, when *)
(* no record does), and for an empty keyword the whole list; and such a    *)
(* call does not panic.                                                    *)
C7_KeywordSearch ==
    /\ (pc = "returned" /\ ~req.newestFirst /\ (req.lat = 0 \/ req.lon = 0)) =>
        IF req.searchTerm = <<>>
        THEN results = searchList
        ELSE results = Pick(searchList, Matching(searchList, req.searchTerm))
    /\ (pc = "panicked" /\ panicVal # "ParseError") =>
        (req.lat # 0 /\ req.lon # 0)

C7_Witness ==
    /\ pc = "returned"
    /\ ~req.newestFirst
    /\ req.lat = 0
    /\ req.searchTerm = <<"B", "A">>
    /\ Len(searchList) = 3
    /\ Len(results) = 2
    /\ results[2] = searchList[3]

(* C8 as stated: a file with a header line and N data rows, K of them with *)
(* status "APPROVED", is loaded without error into exactly those K rows,   *)
(* in file order, whatever the other rows hold.                            *)
C8_ApprovedRowsLoaded ==
    (mainPc # "start" /\ ~source.ioErr /\ Len(source.lines) >= 1) =>
        /\ loadErr = "nil"
        /\ mainPc = "serving"
        /\ LET rows == Tail(source.lines)
               approved == {k \in 1..Len(rows) : rows[k].c10 = "APPROVED"}
           IN  /\ Len(foodTrucks) = Cardinality(approved)
               /\ \A k \in 1..Len(foodTrucks) :
                    /\ foodTrucks[k].Status = "APPROVED"
                    /\ foodTrucks[k].Name = Pick(rows, approved)[k].c1

\* column 20 of the row is a decimal number
NumericReceived(row) ==
    /\ row.c20 # <<>>
    /\ \A k \in 1..Len(row.c20) :
         row.c20[k] \in {"0", "1", "2", "3", "4", "5", "6", "7", "8", "9"}

(* C8, amended: when column 20 of every data row is a decimal number, the  *)
(* file is loaded without error into exactly its K "APPROVED" rows, in     *)
(* file order; when column 20 of some data row, of whatever status, is     *)
(* not, the load fails with the parse error and main keeps no record.      *)
C8_ApprovedRowsLoadedIfNumeric ==
    (mainPc # "start" /\ ~source.ioErr /\ Len(source.lines) >= 1) =>
        LET rows == Tail(source.lines)
            approved == {k \in 1..Len(rows) : rows[k].c10 = "APPROVED"}
        IN  IF \A k \in 1..Len(rows) : NumericReceived(rows[k])
            THEN /\ loadErr = "nil"
                 /\ mainPc = "serving"
                 /\ Len(foodTrucks) = Cardinality(approved)
                 /\ \A k \in 1..Len(foodTrucks) :
                      /\ foodTrucks[k].Status = "APPROVED"
                      /\ foodTrucks[k].Name = Pick(rows, approved)[k].c1
            ELSE /\ loadErr = "ParseError"
                 /\ mainPc = "panicked"
                 /\ foodTrucks = <<>>

C8_Witness ==
    /\ mainPc = "serving"
    /\ Len(source.lines) = 4
    /\ source.lines[2].c10 = "APPROVED"
    /\ source.lines[3].c10 = "approved"
    /\ source.lines[4].c10 = "APPROVED"
    /\ Len(foodTrucks) = 2
    /\ foodTrucks[2].Name = 3

C10_ReadsInsideBatch ==
    (caller = "direct" /\ Successful) =>
        /\ pc # "panicked"
        /\ \A p, q \in 1..Len(walkableTrucks) :
             p < q => walkableTrucks[p].Name < walkableTrucks[q].Name

=============================================================================
